---- MODULE Spec2Model ----
(***************************************************************************)
(* A model of chrish (src/chrish.c): the read-evaluate loop of a small     *)
(* shell, its tokenizer, its three builtins and its process launcher.      *)
(*                                                                         *)
(* Characters are one-character strings, a C string is a sequence of       *)
(* characters.  The shell process is the variable pc; the one child it may *)
(* have is the variable child.  The environment (the input stream, the     *)
(* file system, fork, malloc, signals sent to the child, the inherited     *)
(* SIGCHLD disposition, the kind of the output stream) is nondeterministic.*)
(***************************************************************************)
EXTENDS Integers, Sequences, FiniteSets, TLC

VARIABLES
    pc,          \* position of the shell process in chrish_loop
    stdin,       \* the lines not yet read from the input stream
    line,        \* chrish_loop's line: the text getline returned
    args,        \* chrish_loop's args: the token vector (without the NULL)
    status,      \* chrish_loop's status: the last dispatch's return value
    lineBuf,     \* allocation state of the buffer line points to
    argsBuf,     \* allocation state of the buffer args points to
    exitStatus,  \* how the shell process ended, "running" while it runs
    cwd,         \* the process's working directory
    obuf,        \* stdio's pending (unflushed) stdout buffer of the shell
    out,         \* what has reached the output stream
    err,         \* what has reached the error stream (unbuffered)
    child,       \* state of the child process created by fork
    childBuf,    \* the child's copy of the stdout buffer
    childCode,   \* the exit status of a child that called exit
    stopPending, \* the child stopped and no waitpid has reported it yet
    wstatus,     \* chrish_launch's status, as WIFEXITED/WIFSIGNALED decode it
    waitRet,     \* what the last waitpid call of this launch returned
    ran,         \* the handler the current dispatch invoked
    forkRes,     \* the result of fork in the current dispatch
    execRes,     \* the result of execvp in the child of the current dispatch
    chdirArg,    \* the path the current dispatch passed to chdir, <<>> if none
    badFree,     \* what a pointer held that free was given without a live buffer
    tokLog,      \* the stores and the capacity of the last chrish_split_line
    outTty,      \* stdout is a terminal (line buffered) or not (fully buffered)
    sigIgn       \* SIGCHLD was inherited as ignored

loopVars  == <<pc, line, args, status, lineBuf, argsBuf, exitStatus, badFree>>
ioVars    == <<stdin, obuf, out, err>>
childVars == <<child, childBuf, childCode, stopPending>>
waitVars  == <<wstatus, waitRet>>
histVars  == <<ran, forkRes, execRes, chdirArg>>
envVars   == <<outTty, sigIgn>>
vars      == <<loopVars, ioVars, childVars, waitVars, histVars, envVars, cwd,
               tokLog>>

---------------------------------------------------------------------------
(* Bounds *)

\* The number of lines on the input stream before it ends.
MaxLines == 2

\* The number of times the token buffer of the longest line of SpecBuf has
\* to grow.
MaxGrow == 2

\* The length of the line the tokenizer is applied to in SpecTok.
MaxLen == 4

---------------------------------------------------------------------------
(* Characters and strings *)

SP  == " "
TAB == "\t"
CR  == "\r"
NL  == "\n"
BEL == "^G"

\* A delimiter set without the bell character.
CHRISH_TOK_DELIM_nobel == {SP, TAB, CR, NL}

\* #define CHRISH_TOK_DELIM " \t\r\n\a"
CHRISH_TOK_DELIM == {SP, TAB, CR, NL, BEL}

\* #define CHRISH_TOK_BUFSIZE 64
CHRISH_TOK_BUFSIZE == 64

W_cd   == <<"c", "d">>
W_help == <<"h", "e", "l", "p">>
W_exit == <<"e", "x", "i", "t">>

\* char *builtin_str[]
builtin_str == <<W_cd, W_help, W_exit>>

\* int (*builtin_func[]) (char **)
builtin_func == <<"chrish_cd", "chrish_help", "chrish_exit">>

\* sizeof(builtin_str) / sizeof(char *)
chrish_num_builtins == Len(builtin_str)

---------------------------------------------------------------------------
(* String functions of the C library, as the code uses them *)

\* strncmp(a, b, strlen(b)): a comparison that stops at the end of b.
RECURSIVE strcmp_prefix(_, _)
strcmp_prefix(a, b) ==
    IF b = <<>> THEN 0
    ELSE IF a = <<>> THEN 1
    ELSE IF Head(a) # Head(b) THEN 1
    ELSE strcmp_prefix(Tail(a), Tail(b))

\* strcmp(a, b): 0 when the two strings are equal character by character,
\* nonzero otherwise (the code uses only the comparison with 0).
RECURSIVE strcmp(_, _)
strcmp(a, b) ==
    IF a = <<>> /\ b = <<>> THEN 0
    ELSE IF a = <<>> \/ b = <<>> THEN 1
    ELSE IF Head(a) # Head(b) THEN 1
    ELSE strcmp(Tail(a), Tail(b))

\* A scan that does not skip: strtok would then return empty tokens.
strspn_noskip(s, i) == i

\* s + strspn(s, delim) from index i: the first index at or after i whose
\* character is no delimiter (Len(s) + 1: the terminating NUL).
RECURSIVE strspn(_, _)
strspn(s, i) ==
    IF i > Len(s) THEN i
    ELSE IF s[i] \in CHRISH_TOK_DELIM THEN strspn(s, i + 1)
    ELSE i

\* s + strcspn(s, delim) from index i: the first index at or after i whose
\* character is a delimiter (Len(s) + 1: the terminating NUL).
RECURSIVE strcspn(_, _)
strcspn(s, i) ==
    IF i > Len(s) THEN i
    ELSE IF s[i] \in CHRISH_TOK_DELIM THEN i
    ELSE strcspn(s, i + 1)

\* strtok(line, delim) / strtok(NULL, delim) with the saved position from:
\* skip delimiters, return the run up to the next delimiter, which is
\* overwritten by NUL, and save the position after it.
strtok(s, from) ==
    LET start == strspn(s, from)
        stop  == strcspn(s, start)
    IN  IF start > Len(s)
        THEN [found |-> FALSE, tok |-> <<>>, next |-> Len(s) + 1]
        ELSE [found |-> TRUE,
              tok   |-> SubSeq(s, start, stop - 1),
              next  |-> IF stop > Len(s) THEN stop ELSE stop + 1]

\* A growth test that lets position pass bufsize before it grows.
Grow_late(position, bufsize) ==
    IF position > bufsize THEN bufsize + CHRISH_TOK_BUFSIZE ELSE bufsize

\* if (position >= bufsize) { bufsize += CHRISH_TOK_BUFSIZE; realloc }: the
\* capacity after a store has moved position.
Grow(position, bufsize) ==
    IF position >= bufsize THEN bufsize + CHRISH_TOK_BUFSIZE ELSE bufsize

\* One pass of the while loop of chrish_split_line on loop state st: when
\* the token is not NULL, store it at tokens[position], advance position,
\* grow the buffer by CHRISH_TOK_BUFSIZE when position has reached bufsize
\* (the realloc keeps what was stored), and take the next token.  writes
\* lists the index (from 0) and the capacity of each store; done says that
\* strtok has returned NULL and the loop is over.
SplitStep(s, st) ==
    IF st.done THEN st
    ELSE LET t == strtok(s, st.from)
         IN  IF ~t.found
             THEN [st EXCEPT !.done = TRUE]
             ELSE LET position == Len(st.tokens) + 1
                  IN  [from    |-> t.next,
                       tokens  |-> Append(st.tokens, t.tok),
                       bufsize |-> Grow(position, st.bufsize),
                       writes  |-> Append(st.writes,
                                          [index   |-> Len(st.tokens),
                                           bufsize |-> st.bufsize]),
                       done    |-> FALSE]

\* The while loop of chrish_split_line: k passes from loop state st, taken
\* as two halves so that the evaluation stays shallow on long lines.
RECURSIVE SplitLoop(_, _, _)
SplitLoop(s, st, k) ==
    IF k = 0 THEN st
    ELSE IF k = 1 THEN SplitStep(s, st)
    ELSE LET half == SplitLoop(s, st, k \div 2)
         IN  IF half.done THEN half
             ELSE SplitLoop(s, half, k - (k \div 2))

\* chrish_split_line(line), when no allocation fails: the loop ends within
\* Len(line) + 1 calls of strtok, since every token takes a character; then
\* tokens[position] = NULL is stored (sentinel: its index and the capacity).
chrish_split_line(s) ==
    LET st == SplitLoop(s, [from |-> 1, tokens |-> <<>>,
                            bufsize |-> CHRISH_TOK_BUFSIZE, writes |-> <<>>,
                            done |-> FALSE], Len(s) + 1)
    IN  [tokens   |-> st.tokens,
         bufsize  |-> st.bufsize,
         n_tokens |-> Len(st.tokens),
         writes   |-> st.writes,
         sentinel |-> [index |-> Len(st.tokens), bufsize |-> st.bufsize]]

---------------------------------------------------------------------------
(* Dispatch *)

\* The for loop of chrish_execute from index i: the first builtin whose
\* name strcmp finds equal to args[0], the launcher when there is none.
RECURSIVE ExecScan(_, _)
ExecScan(a, i) ==
    IF i > chrish_num_builtins THEN "chrish_launch"
    ELSE IF strcmp(a[1], builtin_str[i]) = 0 THEN builtin_func[i]
    ELSE ExecScan(a, i + 1)

\* chrish_execute(args): the handler it calls, "empty" for the empty vector,
\* for which it calls none.
chrish_execute(a) ==
    IF a = <<>> THEN "empty" ELSE ExecScan(a, 1)

---------------------------------------------------------------------------
(* The environment *)

\* The working directory the shell is started in.
StartDir == <<"/">>

\* The paths chdir accepts; it rejects every other path.
Dirs == {<<"d">>}

\* The names execvp finds and can execute; it fails for every other name.
Programs == {<<"l", "s">>, <<"c">>}

\* The command lines of the input stream, each as getline returns it.
Lines ==
    { <<NL>>,
      <<SP, TAB, CR, BEL, NL>>,
      <<"e", "x", "i", "t", NL>>,
      <<SP, "e", "x", "i", "t", SP, "d", NL>>,
      <<"c", "d", NL>>,
      <<"c", "d", SP, "d", NL>>,
      <<"c", "d", TAB, "x", NL>>,
      <<"c", "d", SP, "d", SP, "x", NL>>,
      <<"h", "e", "l", "p", NL>>,
      <<"h", "e", "l", "p", SP, "x", NL>>,
      <<"C", "D", SP, "d", NL>>,
      <<"c", "d", "x", NL>>,
      <<"l", "s", SP, "d", NL>>,
      <<"n", "o">> }

\* Every sequence of at most n elements of S.
SeqUpTo(S, n) == UNION {[1..k -> S] : k \in 0..n}

\* The characters of the lines the tokenizer is exercised on in SpecTok.
TokAlphabet == {SP, TAB, CR, NL, BEL, "c", "d"}

---------------------------------------------------------------------------
(* Standard output and standard error *)

\* One printf call's output: the format and its argument.
Item(fmt, arg) == [fmt |-> fmt, arg |-> arg]

PromptItem == Item("> ", <<>>)

\* printf(item): append to stdio's buffer; a line-buffered stream (a
\* terminal) is written out when the text ends with a newline.
Printf(buf, o, item) ==
    LET nb == Append(buf, item)
    IN  IF outTty /\ item.fmt # "> "
        THEN [obuf |-> <<>>, out |-> o \o nb]
        ELSE [obuf |-> nb, out |-> o]

ErrUsage     == "chrish: expected argument to \"cd\"\n"
ErrAlloc     == "chrish: allocation error\n"
PerrorChdir  == "chrish: <strerror of chdir's errno>\n"
PerrorExecvp == "chrish: <strerror of execvp's errno>\n"
PerrorFork   == "chrish: <strerror of fork's errno>\n"

---------------------------------------------------------------------------
(* Builtins *)

\* A chrish_cd that rejects every vector but <<cd, dir>>.
chrish_cd_exact(a, dir, e) ==
    IF Len(a) # 2
    THEN [cwd |-> dir, err |-> Append(e, ErrUsage), ret |-> 1, path |-> <<>>]
    ELSE IF a[2] \in Dirs
         THEN [cwd |-> a[2], err |-> e, ret |-> 1, path |-> a[2]]
         ELSE [cwd |-> dir, err |-> Append(e, PerrorChdir), ret |-> 1,
               path |-> a[2]]

\* A chrish_cd that does not report a failed chdir.
chrish_cd_silent(a, dir, e) ==
    IF Len(a) < 2
    THEN [cwd |-> dir, err |-> Append(e, ErrUsage), ret |-> 1, path |-> <<>>]
    ELSE IF a[2] \in Dirs
         THEN [cwd |-> a[2], err |-> e, ret |-> 1, path |-> a[2]]
         ELSE [cwd |-> dir, err |-> e, ret |-> 1, path |-> a[2]]

\* chrish_cd(args) in directory dir with error stream e: the working
\* directory and the error stream it leaves, its return value, and the
\* path it passed to chdir (<<>> when it did not call chdir).
chrish_cd(a, dir, e) ==
    IF Len(a) < 2
    THEN [cwd |-> dir, err |-> Append(e, ErrUsage), ret |-> 1, path |-> <<>>]
    ELSE IF a[2] \in Dirs
         THEN [cwd |-> a[2], err |-> e, ret |-> 1, path |-> a[2]]
         ELSE [cwd |-> dir, err |-> Append(e, PerrorChdir), ret |-> 1,
               path |-> a[2]]

\* A help loop that stops one builtin short of the table's end.
RECURSIVE HelpNames_short(_)
HelpNames_short(i) ==
    IF i >= chrish_num_builtins THEN <<>>
    ELSE <<Item("  %s\n", builtin_str[i])>> \o HelpNames_short(i + 1)

\* The for loop of chrish_help from index i: one line per builtin name.
RECURSIVE HelpNames(_)
HelpNames(i) ==
    IF i > chrish_num_builtins THEN <<>>
    ELSE <<Item("  %s\n", builtin_str[i])>> \o HelpNames(i + 1)

\* chrish_help(args): the printf calls it makes, and its return value.
chrish_help(a) ==
    [items |-> << Item("Stephen Brennan's CHRISH\n", <<>>),
                  Item("Type program names and arguments, and hit enter.\n", <<>>),
                  Item("The following are built in:\n", <<>>) >>
               \o HelpNames(1)
               \o << Item("Use the man command for information on other programs.\n", <<>>) >>,
     ret |-> 1]

\* A chrish_exit that tells the loop to continue.
chrish_exit_continue(a) == 1

\* chrish_exit(args)
chrish_exit(a) == 0

\* printf of each item of a sequence, in order.
RECURSIVE PrintfAll(_, _, _)
PrintfAll(buf, o, items) ==
    IF items = <<>> THEN [obuf |-> buf, out |-> o]
    ELSE LET p == Printf(buf, o, Head(items))
         IN  PrintfAll(p.obuf, p.out, Tail(items))

---------------------------------------------------------------------------
(* The initial states *)

InitWith(input) ==
    /\ pc = "Prompting"
    /\ stdin = input
    /\ line = <<>>
    /\ args = <<>>
    /\ status = -1
    /\ lineBuf = "null"
    /\ argsBuf = "uninit"
    /\ exitStatus = "running"
    /\ cwd = StartDir
    /\ obuf = <<>>
    /\ out = <<>>
    /\ err = <<>>
    /\ child = "none"
    /\ childBuf = <<>>
    /\ childCode = "none"
    /\ stopPending = FALSE
    /\ wstatus = "uninit"
    /\ waitRet = "none"
    /\ ran = "none"
    /\ forkRes = "none"
    /\ execRes = "none"
    /\ chdirArg = <<>>
    /\ badFree = "none"
    /\ tokLog = [writes |-> <<>>, sentinel |-> [index |-> 0, bufsize |-> 0],
                 bufsize |-> 0]

\* main: the shell starts chrish_loop on an input stream of at most
\* MaxLines lines.
Init ==
    /\ \E input \in SeqUpTo(Lines, MaxLines) : InitWith(input)
    /\ outTty \in BOOLEAN
    /\ sigIgn \in BOOLEAN

---------------------------------------------------------------------------
(* chrish_loop *)

\* A loop tail that never leaves the loop: while (1).
LoopTail_always(st, buf, o) ==
    /\ status' = st
    /\ lineBuf' = "freed"
    /\ argsBuf' = "freed"
    /\ UNCHANGED <<line, args, exitStatus, badFree>>
    /\ pc' = "Prompting"
    /\ obuf' = buf
    /\ out' = o

\* The end of the loop body: free(line); free(args); while (status), and,
\* when the loop ends, main's return of EXIT_SUCCESS, which flushes stdout.
LoopTail(st, buf, o) ==
    /\ status' = st
    /\ lineBuf' = "freed"
    /\ argsBuf' = "freed"
    /\ UNCHANGED <<line, args, badFree>>
    /\ IF st # 0
       THEN /\ pc' = "Prompting"
            /\ exitStatus' = exitStatus
            /\ obuf' = buf
            /\ out' = o
       ELSE /\ pc' = "Stopped"
            /\ exitStatus' = "success"
            /\ obuf' = <<>>
            /\ out' = o \o buf

\* char *line = NULL; printf("> ");
Prompt ==
    /\ pc = "Prompting"
    /\ pc' = "Reading"
    /\ line' = <<>>
    /\ lineBuf' = "null"
    /\ obuf' = Append(obuf, PromptItem)
    /\ ran' = "none"
    /\ forkRes' = "none"
    /\ execRes' = "none"
    /\ waitRet' = "none"
    /\ wstatus' = "uninit"
    /\ childCode' = "none"
    /\ chdirArg' = <<>>
    /\ UNCHANGED <<args, status, argsBuf, exitStatus, badFree, stdin, out,
                   err, child, childBuf, stopPending, envVars, tokLog, cwd>>

\* chrish_read_line returns a line; printf("%d\n", ret); chrish_split_line.
\* The malloc of chrish_split_line, or a realloc of its loop, may fail: the
\* shell then writes the allocation error and exits with EXIT_FAILURE.
ReadLine ==
    /\ pc = "Reading"
    /\ stdin # <<>>
    /\ LET l  == Head(stdin)
           p1 == Printf(obuf, out, Item("%d\n", <<Len(l)>>))
       IN  /\ line' = l
           /\ lineBuf' = "live"
           /\ stdin' = Tail(stdin)
           /\ \/ LET r  == chrish_split_line(l)
                     p2 == Printf(p1.obuf, p1.out, Item("%d\n", <<r.n_tokens>>))
                 IN  /\ args' = r.tokens
                     /\ argsBuf' = "live"
                     /\ tokLog' = [writes |-> r.writes,
                                   sentinel |-> r.sentinel,
                                   bufsize |-> r.bufsize]
                     /\ obuf' = p2.obuf
                     /\ out' = p2.out
                     /\ pc' = "Dispatching"
                     /\ UNCHANGED <<err, exitStatus>>
              \/ /\ err' = Append(err, ErrAlloc)
                 /\ pc' = "Aborted"
                 /\ exitStatus' = "failure"
                 /\ obuf' = <<>>
                 /\ out' = p1.out \o p1.obuf
                 /\ UNCHANGED <<args, argsBuf, tokLog>>
    /\ UNCHANGED <<status, badFree, childVars, waitVars, histVars, envVars,
                   cwd>>

\* chrish_read_line returns -1: printf("%d\n", ret); free(line); free(args);
\* exit(EXIT_SUCCESS).  args does not point to a live buffer here (it is
\* uninitialized in the first iteration and was freed at the end of every
\* other): free(args) is undefined, and either returns or kills the process.
ReadEof ==
    /\ pc = "Reading"
    /\ stdin = <<>>
    /\ LET p1 == Printf(obuf, out, Item("%d\n", <<-1>>))
       IN  \/ /\ pc' = "Stopped"
              /\ exitStatus' = "success"
              /\ lineBuf' = "freed"
              /\ argsBuf' = IF argsBuf = "live" THEN "freed" ELSE argsBuf
              /\ badFree' = IF argsBuf = "live" THEN badFree ELSE argsBuf
              /\ obuf' = <<>>
              /\ out' = p1.out \o p1.obuf
           \/ /\ argsBuf # "live"
              /\ pc' = "Aborted"
              /\ exitStatus' = "killed"
              /\ lineBuf' = "freed"
              /\ argsBuf' = argsBuf
              /\ badFree' = argsBuf
              /\ obuf' = p1.obuf
              /\ out' = p1.out
    /\ UNCHANGED <<line, args, status, stdin, err, childVars, waitVars,
                   histVars, envVars, tokLog, cwd>>

---------------------------------------------------------------------------
(* chrish_execute and the builtins *)

\* if (args[0] == NULL) return 1;
ExecEmpty ==
    /\ pc = "Dispatching"
    /\ chrish_execute(args) = "empty"
    /\ ran' = "empty"
    /\ LoopTail(1, obuf, out)
    /\ UNCHANGED <<stdin, err, childVars, waitVars, forkRes, execRes,
                   chdirArg, envVars, tokLog, cwd>>

ExecCd ==
    /\ pc = "Dispatching"
    /\ chrish_execute(args) = "chrish_cd"
    /\ ran' = "chrish_cd"
    /\ LET r == chrish_cd(args, cwd, err)
       IN  /\ cwd' = r.cwd
           /\ err' = r.err
           /\ chdirArg' = r.path
           /\ LoopTail(r.ret, obuf, out)
    /\ UNCHANGED <<stdin, childVars, waitVars, forkRes, execRes, envVars,
                   tokLog>>

ExecHelp ==
    /\ pc = "Dispatching"
    /\ chrish_execute(args) = "chrish_help"
    /\ ran' = "chrish_help"
    /\ LET r == chrish_help(args)
           p == PrintfAll(obuf, out, r.items)
       IN  LoopTail(r.ret, p.obuf, p.out)
    /\ UNCHANGED <<stdin, err, childVars, waitVars, forkRes, execRes,
                   chdirArg, envVars, tokLog, cwd>>

ExecExit ==
    /\ pc = "Dispatching"
    /\ chrish_execute(args) = "chrish_exit"
    /\ ran' = "chrish_exit"
    /\ LoopTail(chrish_exit(args), obuf, out)
    /\ UNCHANGED <<stdin, err, childVars, waitVars, forkRes, execRes,
                   chdirArg, envVars, tokLog, cwd>>

---------------------------------------------------------------------------
(* chrish_launch *)

\* A wait loop that ends at the first status waitpid reports.
WaitAgain_first(st) == FALSE

\* The condition of the do-while of chrish_launch:
\* !WIFEXITED(status) && !WIFSIGNALED(status).
WaitAgain(st) == st \notin {"exited", "signaled"}

\* waitpid(pid, &status, WUNTRACED) for a child in state c, when it
\* returns: the value returned and the status the caller then reads.  A
\* stopped or terminated child is reported and status set.  With SIGCHLD
\* ignored a terminated child is not reported: waitpid fails with ECHILD
\* and leaves status as it was, st, which is any value when status was never
\* written.
waitpid(c, ign, st) ==
    IF c = "stopped" \/ ~ign
    THEN {[ret |-> c, status |-> c]}
    ELSE {[ret |-> "ECHILD", status |-> g] :
             g \in IF st = "uninit" THEN {"stopped", "exited", "signaled"}
                   ELSE {st}}

\* A fork failure that falls into the parent's wait loop.
ForkError_wait ==
    /\ forkRes' = "fail"
    /\ err' = Append(err, PerrorFork)
    /\ pc' = "Waiting"
    /\ UNCHANGED <<line, args, status, lineBuf, argsBuf, exitStatus,
                   badFree, obuf, out, child, childBuf>>

\* else if (pid < 0): perror("chrish"), and chrish_launch returns 1.
ForkError ==
    /\ forkRes' = "fail"
    /\ err' = Append(err, PerrorFork)
    /\ LoopTail(1, obuf, out)
    /\ UNCHANGED <<child, childBuf>>

\* pid = fork(): a child is created and the parent goes on to wait for it,
\* or fork fails.
LaunchFork ==
    /\ pc = "Dispatching"
    /\ chrish_execute(args) = "chrish_launch"
    /\ ran' = "chrish_launch"
    /\ \/ /\ forkRes' = "ok"
          /\ child' = "forked"
          /\ childBuf' = obuf
          /\ pc' = "Waiting"
          /\ UNCHANGED <<line, args, status, lineBuf, argsBuf, exitStatus,
                         badFree, obuf, out, err>>
       \/ ForkError
    /\ UNCHANGED <<stdin, childCode, stopPending, waitVars, execRes,
                   chdirArg, envVars, tokLog, cwd>>

\* A child whose failed execvp is not followed by exit: it reports the error
\* and goes on running the shell's own code.
ChildExec_returns ==
    /\ child = "forked"
    /\ IF args[1] \in Programs
       THEN /\ execRes' = "ok"
            /\ childBuf' = <<>>
            /\ UNCHANGED err
       ELSE /\ execRes' = "fail"
            /\ err' = Append(err, PerrorExecvp)
            /\ UNCHANGED childBuf
    /\ child' = "running"
    /\ UNCHANGED <<loopVars, stdin, obuf, out, childCode, stopPending,
                   waitVars, ran, forkRes, chdirArg, envVars, tokLog, cwd>>

\* The child: execvp(args[0], args) replaces the program image, or fails:
\* perror("chrish"); exit(EXIT_FAILURE), which flushes the child's copy of
\* the stdout buffer.
ChildExec ==
    /\ child = "forked"
    /\ IF args[1] \in Programs
       THEN /\ execRes' = "ok"
            /\ child' = "running"
            /\ childBuf' = <<>>
            /\ UNCHANGED <<childCode, out, err>>
       ELSE /\ execRes' = "fail"
            /\ err' = Append(err, PerrorExecvp)
            /\ child' = "exited"
            /\ childCode' = "EXIT_FAILURE"
            /\ out' = out \o childBuf
            /\ childBuf' = <<>>
    /\ UNCHANGED <<loopVars, stdin, obuf, stopPending, waitVars, ran,
                   forkRes, chdirArg, envVars, tokLog, cwd>>

\* The child is stopped by a signal (SIGSTOP, SIGTSTP, ...).
ChildStop ==
    /\ child \in {"forked", "running"}
    /\ child' = "stopped"
    /\ stopPending' = TRUE
    /\ UNCHANGED <<loopVars, ioVars, childBuf, childCode, waitVars,
                   histVars, envVars, tokLog, cwd>>

\* The stopped child is continued (SIGCONT); a stop that no waitpid has
\* reported yet is no longer reported.
ChildCont ==
    /\ child = "stopped"
    /\ child' = IF execRes = "none" THEN "forked" ELSE "running"
    /\ stopPending' = FALSE
    /\ UNCHANGED <<loopVars, ioVars, childBuf, childCode, waitVars,
                   histVars, envVars, tokLog, cwd>>

\* The program the child runs exits, with a status of its own.
ChildExit ==
    /\ child = "running"
    /\ child' = "exited"
    /\ \E code \in {"EXIT_SUCCESS", "EXIT_FAILURE"} : childCode' = code
    /\ UNCHANGED <<loopVars, ioVars, childBuf, stopPending, waitVars,
                   histVars, envVars, tokLog, cwd>>

\* The child is terminated by a signal.
ChildKill ==
    /\ child \in {"forked", "running", "stopped"}
    /\ child' = "signaled"
    /\ stopPending' = FALSE
    /\ childBuf' = <<>>
    /\ UNCHANGED <<loopVars, ioVars, childCode, waitVars, histVars,
                   envVars, tokLog, cwd>>

\* The parent: one iteration of do { waitpid(...); } while (...), and when
\* the loop ends the return of 1 to chrish_execute and chrish_loop.
Wait ==
    /\ pc = "Waiting"
    /\ \/ child = "stopped" /\ stopPending
       \/ child \in {"exited", "signaled"}
    /\ \E w \in waitpid(child, sigIgn, wstatus) :
          /\ waitRet' = w.ret
          /\ wstatus' = w.status
          /\ stopPending' = FALSE
          /\ IF WaitAgain(w.status)
             THEN /\ child' = child
                  /\ UNCHANGED loopVars
                  /\ UNCHANGED <<obuf, out>>
             ELSE /\ child' = IF child = "stopped" THEN child ELSE "none"
                  /\ LoopTail(1, obuf, out)
    /\ UNCHANGED <<stdin, err, childBuf, childCode, histVars, envVars,
                   tokLog, cwd>>

---------------------------------------------------------------------------
(* The specifications *)

Next ==
    \/ Prompt
    \/ ReadLine
    \/ ReadEof
    \/ ExecEmpty
    \/ ExecCd
    \/ ExecHelp
    \/ ExecExit
    \/ LaunchFork
    \/ ChildExec
    \/ ChildStop
    \/ ChildCont
    \/ ChildExit
    \/ ChildKill
    \/ Wait

\* The shell on every input stream of at most MaxLines command lines.
Spec == Init /\ [][Next]_vars

\* The shell on an input stream of one line, for every line of at most
\* MaxLen characters of TokAlphabet and the command lines of Lines: the
\* tokenizer and the dispatcher applied to every short string.
InitTok ==
    /\ \E l \in (SeqUpTo(TokAlphabet, MaxLen) \ {<<>>}) \cup Lines :
          InitWith(<<l>>)
    /\ outTty = FALSE
    /\ sigIgn = FALSE

SpecTok == InitTok /\ [][Next]_vars

\* The token counts around the capacities of the token buffer: one below,
\* at, and one above every multiple of CHRISH_TOK_BUFSIZE up to MaxGrow.
BufCounts ==
    {k * CHRISH_TOK_BUFSIZE + d : k \in 0..MaxGrow, d \in {-1, 0, 1}} \ {-1}

\* A line of n tokens: the command name first, then n - 1 times " d".
LongLine(first, n) ==
    IF n = 0 THEN <<NL>>
    ELSE first \o [i \in 1..(2 * (n - 1)) |-> IF i % 2 = 1 THEN SP ELSE "d"]
               \o <<NL>>

\* The shell on an input stream of one long line: a builtin or a program
\* name followed by arguments, for every token count of BufCounts.
InitBuf ==
    /\ \E first \in {W_cd, W_help, W_exit, <<"l", "s">>, <<"n", "o">>} :
       \E n \in BufCounts : InitWith(<<LongLine(first, n)>>)
    /\ outTty = FALSE
    /\ sigIgn \in BOOLEAN

SpecBuf == InitBuf /\ [][Next]_vars

---------------------------------------------------------------------------
(* Properties *)

\* The child is alive: created, and neither exited nor killed.
ChildAlive == child \in {"forked", "running", "stopped"}

\* The launcher is part of the dispatch of a command.
InDispatch == pc \in {"Dispatching", "Waiting"}

\* The delimiter characters: space, tab, carriage-return, newline, bell.
DelimiterChars == {" ", "\t", "\r", "\n", "^G"}

\* The names of the registered builtins.
RegisteredNames ==
    {<<"c", "d">>, <<"h", "e", "l", "p">>, <<"e", "x", "i", "t">>}

\* C1: the loop starts in Prompting and moves only Prompting -> Reading ->
\* Dispatching -> Prompting or Stopped.  Stopped is entered only from a
\* dispatch that returned 0 (Terminate) or from Reading at the end of the
\* input; a dispatch that returned nonzero (Continue) goes back to
\* Prompting; once Stopped, nothing changes any more: no prompt, no read, no
\* dispatch.  (Waiting is the launcher's part of Dispatching.  The process
\* can also die in Reading, where the tokenizer's allocation failure and the
\* invalid free at the end of the input end it: that is Aborted.)
C1_LoopStateMachine ==
    /\ pc = "Prompting"
    /\ [][ /\ (pc = "Prompting" /\ pc' # pc) => pc' = "Reading"
           /\ (pc = "Reading" /\ pc' # pc) =>
                 \/ pc' = "Dispatching" /\ stdin # <<>> /\ stdin' = Tail(stdin)
                 \/ pc' = "Stopped" /\ stdin = <<>>
                 \/ pc' = "Aborted"
           /\ (pc = "Dispatching" /\ pc' # pc) =>
                 pc' \in {"Waiting", "Prompting", "Stopped"}
           /\ (pc = "Waiting" /\ pc' # pc) => pc' \in {"Prompting", "Stopped"}
           /\ (InDispatch /\ pc' = "Prompting") => status' # 0
           /\ (InDispatch /\ pc' = "Stopped") => status' = 0
           /\ (InDispatch /\ pc' \notin {"Dispatching", "Waiting"}) =>
                 pc' = IF status' # 0 THEN "Prompting" ELSE "Stopped"
           /\ pc' = "Stopped" =>
                 \/ pc = "Stopped"
                 \/ InDispatch /\ status' = 0
                 \/ pc = "Reading" /\ stdin = <<>>
           /\ pc = "Stopped" => vars' = vars
         ]_vars

\* C1's case: the loop went round with Continue (a cd that succeeded) and
\* was then stopped by a dispatch that returned Terminate.
C1_Witness ==
    /\ pc = "Stopped"
    /\ status = 0
    /\ ran = "chrish_exit"
    /\ cwd = <<"d">>

\* C2: a dispatch of a vector whose element 0 is "exit", whatever follows
\* it, returns 0 (Terminate) from chrish_exit; the loop stops in the same
\* step, reading nothing and prompting nothing more (the pending output is
\* flushed, nothing is added), the process ends with a success status, and
\* nothing happens after that.
C2_ExitTerminates ==
    [][ /\ (pc = "Dispatching" /\ args # <<>> /\ args[1] = <<"e", "x", "i", "t">>) =>
              /\ ran' = "chrish_exit"
              /\ status' = 0
              /\ pc' = "Stopped"
              /\ exitStatus' = "success"
              /\ stdin' = stdin
              /\ out' \o obuf' = out \o obuf
              /\ child' = "none"
        /\ (pc = "Stopped" /\ ran = "chrish_exit") => vars' = vars
      ]_vars

\* C2's case: exit with a further argument has stopped the loop.
C2_Witness ==
    /\ pc = "Stopped"
    /\ ran = "chrish_exit"
    /\ Len(args) = 2
    /\ exitStatus = "success"

\* C3: a read that finds the input stream exhausted stops the loop with a
\* success status, in the first iteration and in every later one, and
\* tokenizes and dispatches nothing for that read.
C3_EofExitsSuccessfully ==
    [][ (pc = "Reading" /\ stdin = <<>>) =>
            /\ pc' = "Stopped"
            /\ exitStatus' = "success"
            /\ args' = args
            /\ ran' = ran
      ]_vars

\* Every character of l is a delimiter character.
OnlyDelimiters(l) == \A i \in 1..Len(l) : l[i] \in DelimiterChars

\* C4: for a line made only of delimiter characters the tokenizer returns
\* the empty vector, and its dispatch returns 1 (Continue) as a no-op: no
\* builtin and no launcher runs, no child is created, nothing is written
\* and the working directory stays.
C4_DelimiterLineIsNoOp ==
    [][ (pc = "Dispatching" /\ OnlyDelimiters(line)) =>
            /\ args = <<>>
            /\ ran' = "empty"
            /\ status' = 1
            /\ pc' = "Prompting"
            /\ cwd' = cwd
            /\ child' = "none"
            /\ forkRes' = "none"
            /\ execRes' = "none"
            /\ err' = err
            /\ out' = out
            /\ obuf' = obuf
            /\ exitStatus' = "running"
      ]_vars

\* C4's case: a line of all five delimiter characters has been dispatched.
C4_Witness ==
    /\ pc = "Prompting"
    /\ ran = "empty"
    /\ line = <<" ", "\t", "\r", "^G", "\n">>
    /\ args = <<>>
    /\ status = 1

\* Positions a..b of l are a maximal run of non-delimiter characters.
IsRun(l, a, b) ==
    /\ a <= b
    /\ \A i \in a..b : l[i] \notin DelimiterChars
    /\ a = 1 \/ l[a - 1] \in DelimiterChars
    /\ b = Len(l) \/ l[b + 1] \in DelimiterChars

\* The maximal runs of non-delimiter characters of l.
Runs(l) == {r \in (1..Len(l)) \X (1..Len(l)) : IsRun(l, r[1], r[2])}

\* C5: the vector the tokenizer returns for a line is the sequence of the
\* line's maximal runs of non-delimiter characters, from left to right: as
\* many arguments as runs (words), the k-th argument the k-th run, none
\* empty, whatever delimiters lead, trail or repeat.
C5_TokensAreMaximalRuns ==
    pc = "Dispatching" =>
        LET R == Runs(line)
        IN  /\ Len(args) = Cardinality(R)
            /\ \A r \in R :
                  args[Cardinality({q \in R : q[1] < r[1]}) + 1]
                      = SubSeq(line, r[1], r[2])
            /\ \A k \in 1..Len(args) : args[k] # <<>>

\* C5's case: two words with two different delimiters between them have
\* been tokenized.
C5_Witness ==
    /\ pc = "Dispatching"
    /\ line = <<"c", "\t", "^G", "d">>
    /\ args = << <<"c">>, <<"d">> >>

\* C6: cd returns 1 (Continue) in every case.  Without an argument the
\* working directory stays and the usage message is written to the error
\* stream; with a path chdir accepts the working directory becomes that path
\* and nothing is written; with a path chdir rejects the working directory
\* stays and the OS error is written.  Nothing else changes the working
\* directory.
C6_CdChangesDirOnlyOnSuccess ==
    [][ /\ (pc = "Dispatching" /\ args # <<>> /\ args[1] = <<"c", "d">>) =>
              /\ ran' = "chrish_cd"
              /\ status' = 1
              /\ pc' = "Prompting"
              /\ Len(args) = 1 =>
                    cwd' = cwd /\ err' = Append(err, ErrUsage)
              /\ (Len(args) > 1 /\ args[2] \in Dirs) =>
                    cwd' = args[2] /\ err' = err
              /\ (Len(args) > 1 /\ args[2] \notin Dirs) =>
                    cwd' = cwd /\ err' = Append(err, PerrorChdir)
        /\ cwd' # cwd =>
              /\ pc = "Dispatching"
              /\ ran' = "chrish_cd"
              /\ cwd' = args[2]
              /\ cwd' \in Dirs
      ]_vars

\* C6's case: a cd to an accepted path changed the directory, and a later
\* cd to a rejected path left it there and reported the error.
C6_Witness ==
    /\ pc = "Prompting"
    /\ ran = "chrish_cd"
    /\ cwd = <<"d">>
    /\ args = << <<"c", "d">>, <<"x">> >>
    /\ err = <<PerrorChdir>>

\* The handler registered for a command name, the launcher for the others.
HandlerFor(name) ==
    IF name = <<"c", "d">> THEN "chrish_cd"
    ELSE IF name = <<"h", "e", "l", "p">> THEN "chrish_help"
    ELSE IF name = <<"e", "x", "i", "t">> THEN "chrish_exit"
    ELSE "chrish_launch"

\* C7: the dispatch of a non-empty vector runs exactly the handler
\* registered for element 0, the launcher when element 0 is no registered
\* name.  A builtin's dispatch forks nothing and returns the builtin's
\* signal (0 for exit, 1 for cd and help); the launcher's dispatch forks
\* once.  No handler runs outside a dispatch.
C7_DispatchRunsOneHandler ==
    [][ /\ (pc = "Dispatching" /\ args # <<>>) =>
              /\ ran' = HandlerFor(args[1])
              /\ args[1] \in RegisteredNames =>
                    /\ forkRes' = "none"
                    /\ child' = "none"
                    /\ pc' # "Waiting"
                    /\ status' = IF args[1] = <<"e", "x", "i", "t">> THEN 0 ELSE 1
              /\ args[1] \notin RegisteredNames =>
                    /\ forkRes' \in {"ok", "fail"}
                    /\ forkRes' = "ok" <=> child' = "forked"
        /\ ran' # ran => (pc = "Dispatching" /\ ran = "none") \/ ran' = "none"
        /\ forkRes' # forkRes =>
              (pc = "Dispatching" /\ forkRes = "none") \/ forkRes' = "none"
      ]_vars

\* C7's case: a name that differs from a builtin's only in case went to the
\* launcher, which forked.
C7_Witness ==
    /\ pc = "Waiting"
    /\ args[1] = <<"C", "D">>
    /\ ran = "chrish_launch"
    /\ forkRes = "ok"

\* C8: the launcher leaves its wait loop only when the child has exited or
\* has been killed by a signal, and with a status that says so: while the
\* child is alive (before its exec, running or stopped) the launcher stays
\* in the loop, and a wait call that reports a stop leaves it in the loop.
C8_WaitEndsOnlyOnTermination ==
    [][ /\ (pc = "Waiting" /\ ChildAlive) => pc' = "Waiting"
        /\ (pc = "Waiting" /\ waitRet' = "stopped") => pc' = "Waiting"
        /\ (pc = "Waiting" /\ pc' # "Waiting") =>
              /\ child \in {"exited", "signaled"}
              /\ wstatus' \in {"exited", "signaled"}
              /\ ~ChildAlive'
      ]_vars

\* C8's case: a wait call has reported the child stopped, the child has
\* been continued, and the launcher is still waiting.
C8_Witness ==
    /\ pc = "Waiting"
    /\ waitRet = "stopped"
    /\ child = "running"

\* C9: when execvp has failed in the child, the child has written the error
\* and exited with a failure status, and the parent does not hang: the wait
\* call that returns after that exit ends the wait, so that the launcher
\* has returned 1 and the loop is at the next prompt.
C9_ExecFailureIsObserved ==
    execRes = "fail" =>
        /\ childCode = "EXIT_FAILURE"
        /\ \E i \in 1..Len(err) : err[i] = PerrorExecvp
        /\ waitRet \in {"exited", "signaled", "ECHILD"} =>
              /\ pc = "Prompting"
              /\ status = 1

\* C10: when fork fails the launcher writes the error, creates no child,
\* calls no wait and returns 1: the loop goes on to the next prompt.
C10_ForkFailureReturnsContinue ==
    /\ [](forkRes = "fail" =>
              /\ child = "none"
              /\ waitRet = "none"
              /\ execRes = "none"
              /\ pc = "Prompting"
              /\ status = 1
              /\ err # <<>> /\ err[Len(err)] = PerrorFork)
    /\ [][ forkRes' = "fail" =>
              /\ pc = "Dispatching"
              /\ err' = Append(err, PerrorFork)
              /\ pc' = "Prompting"
              /\ status' = 1
         ]_vars

\* C10's case: the fork of a second command failed.
C10_Witness ==
    /\ forkRes = "fail"
    /\ ran = "chrish_launch"
    /\ pc = "Prompting"
    /\ Len(err) = 1
    /\ Len(out \o obuf) > 3

\* C11: while a launched child is alive the shell is in the launcher's wait
\* loop: it writes no prompt and reads no line; a child is created only when
\* no other child exists; and when the launcher has returned (the loop is
\* back at the prompt, or stopped) no child is left alive.
C11_ShellWaitsForItsChild ==
    /\ [](ChildAlive => pc = "Waiting")
    /\ [](pc \in {"Prompting", "Reading", "Dispatching", "Stopped"} =>
             child = "none")
    /\ [][ /\ (obuf' # obuf \/ stdin' # stdin) =>
                 ~ChildAlive /\ ~ChildAlive'
           /\ (forkRes' = "ok" /\ forkRes # "ok") =>
                 child = "none" /\ child' = "forked"
           /\ (child = "none" /\ child' # "none") =>
                 forkRes' = "ok" /\ forkRes # "ok"
         ]_vars

\* C11's case: a launched program ran, was stopped and continued, then
\* exited; the launcher has returned and the next prompt is due.
C11_Witness ==
    /\ pc = "Prompting"
    /\ ran = "chrish_launch"
    /\ forkRes = "ok"
    /\ execRes = "ok"
    /\ childCode = "EXIT_SUCCESS"
    /\ waitRet = "exited"
    /\ child = "none"
    /\ status = 1

\* The items the step appended to standard output, written out or pending.
C12_Written ==
    SubSeq(out' \o obuf', Len(out \o obuf) + 1, Len(out' \o obuf'))

\* C12: help, with or without arguments, prints the banner, then the names
\* cd, help, exit in that order, one line each and once each, then the
\* closing note; it returns Continue and changes neither the working
\* directory nor the set of processes.
C12_HelpListsBuiltins ==
    [][ (pc = "Dispatching" /\ args # <<>> /\ args[1] = <<"h", "e", "l", "p">>
            /\ pc' # pc) =>
          /\ C12_Written =
               << [fmt |-> "Stephen Brennan's CHRISH\n", arg |-> <<>>],
                  [fmt |-> "Type program names and arguments, and hit enter.\n",
                   arg |-> <<>>],
                  [fmt |-> "The following are built in:\n", arg |-> <<>>],
                  [fmt |-> "  %s\n", arg |-> <<"c", "d">>],
                  [fmt |-> "  %s\n", arg |-> <<"h", "e", "l", "p">>],
                  [fmt |-> "  %s\n", arg |-> <<"e", "x", "i", "t">>],
                  [fmt |-> "Use the man command for information on other programs.\n",
                   arg |-> <<>>] >>
          /\ status' = 1
          /\ pc' = "Prompting"
          /\ cwd' = cwd
          /\ err' = err
          /\ child = "none" /\ child' = "none"
          /\ forkRes' = "none"
      ]_vars

\* C12's case: help was given an argument and has returned.
C12_Witness ==
    /\ ran = "chrish_help"
    /\ Len(args) = 2
    /\ pc = "Prompting"
    /\ status = 1
    /\ Len(out \o obuf) >= 10

\* C13: on every way out of an iteration (Continue, Terminate, end of
\* input) the iteration's line buffer and token vector are released once,
\* before the next prompt or the exit: at the prompt and in Stopped no
\* buffer is live, and free is never passed a pointer that holds no live
\* buffer (one never assigned, or one an earlier iteration released).
C13_BuffersReleasedOnce ==
    /\ pc \in {"Prompting", "Stopped"} => lineBuf # "live" /\ argsBuf # "live"
    /\ badFree = "none"

\* C14: tokenizing a line writes nothing: the step that reads a line and
\* splits it appends to standard output only the loop's own print of the
\* count read, writes nothing to standard error, and changes neither the
\* working directory nor the set of processes.
C14_TokenizerIsSilent ==
    [][ (pc = "Reading" /\ pc' = "Dispatching") =>
          /\ out' \o obuf' =
                Append(out \o obuf, [fmt |-> "%d\n", arg |-> <<Len(line')>>])
          /\ err' = err
          /\ cwd' = cwd
          /\ child' = child
      ]_vars

\* The step that dispatches a vector whose first token is cd.
C15_CdStep ==
    /\ pc = "Dispatching"
    /\ args # <<>>
    /\ args[1] = <<"c", "d">>
    /\ pc' # pc

\* C15 as claimed: cd calls chdir exactly when the vector has one argument
\* after the command name; with none it reports the usage error and does
\* nothing else.
C15_CdExactlyOneArgument ==
    [][ C15_CdStep =>
          /\ chdirArg' # <<>> <=> Len(args) = 2
          /\ Len(args) = 1 =>
                /\ err' = Append(err, "chrish: expected argument to \"cd\"\n")
                /\ cwd' = cwd
      ]_vars

\* C15: cd calls chdir exactly when the vector has at least one argument
\* after the command name, with the first of them as the path, whatever
\* follows it; with none it reports the usage error, calls no chdir and
\* leaves the working directory alone.
C15_CdAtLeastOneArgument ==
    [][ C15_CdStep =>
          /\ chdirArg' # <<>> <=> Len(args) >= 2
          /\ Len(args) >= 2 =>
                /\ chdirArg' = args[2]
                /\ cwd' \in {cwd, args[2]}
          /\ Len(args) = 1 =>
                /\ err' = Append(err, "chrish: expected argument to \"cd\"\n")
                /\ cwd' = cwd
          /\ status' = 1
      ]_vars

\* C15's case: cd was given two arguments and changed to the first.
C15_Witness ==
    /\ ran = "chrish_cd"
    /\ Len(args) = 3
    /\ chdirArg = <<"d">>
    /\ cwd = <<"d">>
    /\ err = <<>>
    /\ pc = "Prompting"

\* The number of tokens of line l: the places where a run of non-delimiter
\* characters starts.
C16_Count(l) ==
    Cardinality({i \in 1..Len(l) :
                    /\ l[i] \notin DelimiterChars
                    /\ i = 1 \/ l[i - 1] \in DelimiterChars})

\* The characters of the tokens lo..hi of a vector, in order.
RECURSIVE C16_Flatten(_, _, _)
C16_Flatten(a, lo, hi) ==
    IF lo > hi THEN <<>>
    ELSE IF lo = hi THEN a[lo]
    ELSE LET mid == (lo + hi) \div 2
         IN  C16_Flatten(a, lo, mid) \o C16_Flatten(a, mid + 1, hi)

\* C16: in the tokenizer every token is stored at an index below the
\* capacity the buffer has at that moment, and so is the final NULL; the
\* capacity starts at 64 and grows by 64 exactly when the number of stored
\* tokens reaches it; and the vector holds every token of the line, in the
\* order of the line, whatever growth happened in between.  (Before the
\* first line is split there is no buffer: tokLog.bufsize is 0.)
C16_StoresWithinCapacity ==
    LET w == tokLog.writes
        n == Len(w)
        after(i) == IF i = n THEN tokLog.sentinel.bufsize ELSE w[i + 1].bufsize
    IN  tokLog.bufsize > 0 =>
        /\ \A i \in 1..n :
              /\ w[i].index = i - 1
              /\ w[i].index < w[i].bufsize
              /\ after(i) = IF i = w[i].bufsize THEN w[i].bufsize + 64
                            ELSE w[i].bufsize
        /\ n > 0 => w[1].bufsize = 64
        /\ tokLog.sentinel.index = n
        /\ tokLog.sentinel.index < tokLog.sentinel.bufsize
        /\ tokLog.bufsize = tokLog.sentinel.bufsize
        /\ pc = "Dispatching" =>
              /\ n = Len(args)
              /\ n = C16_Count(line)
              /\ tokLog.bufsize = 64 * (1 + (n \div 64))
              /\ C16_Flatten(args, 1, n) =
                    SelectSeq(line, LAMBDA c : c \notin DelimiterChars)

\* C16's case: a line of exactly 128 tokens was split; the buffer grew when
\* the 64th and again when the 128th token was stored.
C16_Witness ==
    /\ pc = "Dispatching"
    /\ Len(args) = 128
    /\ Len(tokLog.writes) = 128
    /\ tokLog.writes[128].bufsize = 128
    /\ tokLog.sentinel = [index |-> 128, bufsize |-> 192]

\* C17: only the shell runs the loop.  The child's one step after the fork
\* either replaces its image (execvp succeeds) or, when execvp fails, ends
\* the child with EXIT_FAILURE; a child that is past that step and still
\* alive runs the other program; and no step of a live child moves the
\* loop, reads the input, writes a prompt or dispatches.
C17_ChildNeverRunsTheLoop ==
    /\ [](child \in {"running", "stopped"} => execRes \in {"ok", "none"})
    /\ [](child = "running" => execRes = "ok")
    /\ [](execRes = "fail" => ~ChildAlive /\ childCode = "EXIT_FAILURE")
    /\ [][ /\ (execRes' # execRes /\ execRes' # "none") =>
                 /\ child = "forked"
                 /\ \/ execRes' = "ok" /\ child' = "running"
                    \/ /\ execRes' = "fail"
                       /\ child' = "exited"
                       /\ childCode' = "EXIT_FAILURE"
           /\ (ChildAlive /\ child' # child) =>
                 /\ pc' = pc /\ stdin' = stdin /\ obuf' = obuf
                 /\ line' = line /\ args' = args /\ status' = status
                 /\ ran' = ran /\ cwd' = cwd /\ forkRes' = forkRes
         ]_vars

\* C17's case: execvp failed in the child, the child has exited with
\* EXIT_FAILURE, and the shell is still in the launcher's wait.
C17_Witness ==
    /\ execRes = "fail"
    /\ child = "exited"
    /\ childCode = "EXIT_FAILURE"
    /\ pc = "Waiting"
    /\ waitRet = "none"
    /\ Len(stdin) = 1

\* C18: text the shell printed reaches standard output once: a step of the
\* child, and in particular its exit after a failed execvp, writes out
\* nothing of what was pending in the shell's buffer at the fork (the
\* shell writes it out itself).
C18_OutputEmittedOnce ==
    [][ (ChildAlive /\ child' # child) => out' = out ]_vars

\* C19: the wait loop cannot hang: while the shell is in it, some step
\* changes the state; the child, while alive, can still exit or be killed,
\* and once it has terminated the next return of the wait call moves the loop
\* on, also when that call reported no status.
C19_WaitLoopEnds ==
    pc = "Waiting" => ENABLED <<Next>>_vars

====
